---- MODULE Spec2Model ----
(***************************************************************************)
(* Analyzer (analysis.py): the text-classification pipeline               *)
(*   vocabulary -> document-term matrix -> PCA -> sentiment -> SVM.       *)
(*                                                                         *)
(* A document is kept as the token sequence wordpunct_tokenize yields for *)
(* it; ' '.join(data) followed by wordpunct_tokenize is therefore the     *)
(* concatenation of the documents' token sequences.  The numeric library  *)
(* objects (PCA, GridSearchCV/SVC) are kept symbolically: where they came *)
(* from (fit or joblib.load), the shape they were fitted on, and the      *)
(* shape errors they raise.  Labels are a parallel array of the corpus    *)
(* and are not kept.                                                       *)
(***************************************************************************)
EXTENDS Integers, Sequences, FiniteSets, TLC

VARIABLES
    data,           \* self.data: the corpus, a sequence of documents
    max_words,      \* self.max_words
    load_pca,       \* self.load_pca
    load_svm,       \* self.load_svm
    use_sentiment,  \* self.use_sentiment
    stop_words,     \* self.stop_words
    words,          \* self.words: Counter, in insertion order
    top_words,      \* self.top_words: dict term -> count
    dtm,            \* self.dtm: list of rows (dict term -> count)
    pca,            \* self.pca
    pcscores,       \* self.pcscores
    loadings,       \* self.loadings
    load_squared,   \* self.load_squared
    sentiment,      \* self.sentiment
    svc,            \* self.svc
    features,       \* the matrix `data` that run_svm hands to the classifier
    result,         \* what the running entry point returned or raised
    written,        \* the assignments to model fields so far: <<field, method>>
    entry,          \* which entry point drives the stages
    pc              \* the stage the entry point calls next

vars == <<data, max_words, load_pca, load_svm, use_sentiment, stop_words,
          words, top_words, dtm, pca, pcscores, loadings, load_squared,
          sentiment, svc, features, result, written, entry, pc>>

config == <<data, max_words, load_pca, load_svm, use_sentiment, stop_words, entry>>

(***************************************************************************)
(* Bounds of the model.                                                    *)
(***************************************************************************)
MaxDocs == 2
MaxTokens == 3
MaxRunDocs == 2
MaxRunTokens == 2
MaxK == 2

(***************************************************************************)
(* Tokens, lower-casing, stemming, stop words.                             *)
(***************************************************************************)
Tokens == {"happy", "sad", "Trump", "trumps", "http"}

\* The tokens of the corpora the full runs are given.
RunTokens == {"happy", "sad", "trumps"}

lower(t) == IF t = "Trump" THEN "trump" ELSE t

startswith_http(t) == t \in {"http", "https"}

stem(t) ==
    CASE t = "happy" -> "happi"
      [] t = "trumps" -> "trump"
      [] OTHER -> t

MoreStopWords == {{""}, {"sad"}}

StopWordSet(more_stop_words) ==
    {"i", "the", "a", "t"}
    \cup {"!", ".", "/", ":"}
    \cup {"://", "co", "&", "amp", "...", "000"}
    \cup {"hillary", "clinton", "donald", "trump", "clinton2016",
          "trump2016", "hillary2016", "makeamericagreatagain"}
    \cup {"realdonaldtrump", "hillaryclinton", "berniesanders"}
    \cup more_stop_words

Min(a, b) == IF a <= b THEN a ELSE b

Range(s) == {s[i] : i \in DOMAIN s}

RECURSIVE Flatten(_)
Flatten(ss) == IF ss = <<>> THEN <<>> ELSE Head(ss) \o Flatten(Tail(ss))

\* [i.lower() for i in tokens if i.lower() not in stop_words
\*                            and not i.lower().startswith('http')]
RawFilter(tokens, stops) ==
    LET low == [i \in DOMAIN tokens |-> lower(tokens[i])]
    IN  SelectSeq(low, LAMBDA w : w \notin stops /\ ~startswith_http(w))

\* [porter.stem(i.lower()) for i in tokens if ...same filter...]
StemFilter(tokens, stops) ==
    LET kept == RawFilter(tokens, stops)
    IN  [i \in DOMAIN kept |-> stem(kept[i])]

(***************************************************************************)
(* collections.Counter, kept as a sequence of [term, n] in the order the  *)
(* terms were first inserted.                                              *)
(***************************************************************************)
RECURSIVE CounterAdd(_, _)
CounterAdd(c, t) ==
    IF c = <<>> THEN << [term |-> t, n |-> 1] >>
    ELSE IF Head(c).term = t
         THEN << [term |-> t, n |-> Head(c).n + 1] >> \o Tail(c)
         ELSE << Head(c) >> \o CounterAdd(Tail(c), t)

RECURSIVE Counter(_)
Counter(tokens) ==
    IF tokens = <<>> THEN <<>>
    ELSE CounterAdd(Counter(SubSeq(tokens, 1, Len(tokens) - 1)), tokens[Len(tokens)])

\* Variant: the first n terms in insertion order, unsorted.
most_common_unsorted(c, n) == SubSeq(c, 1, Min(n, Len(c)))

\* Counter.most_common(n): sorted by count, largest first, equal counts in
\* insertion order; the first n of them.
most_common(c, n) ==
    LET rank(i) == Cardinality({j \in DOMAIN c :
                       c[j].n > c[i].n \/ (c[j].n = c[i].n /\ j < i)}) + 1
        sorted == [r \in DOMAIN c |-> c[CHOOSE i \in DOMAIN c : rank(i) = r]]
    IN  SubSeq(sorted, 1, Min(n, Len(c)))

\* dict(pairs)
dict(pairs) ==
    [t \in {pairs[i].term : i \in DOMAIN pairs} |->
        (CHOOSE p \in Range(pairs) : p.term = t).n]

(***************************************************************************)
(* Corpora: a flat token sequence cut into documents.                      *)
(***************************************************************************)
Cut(flat, ends) ==
    [k \in DOMAIN ends |->
        SubSeq(flat, (IF k = 1 THEN 0 ELSE ends[k - 1]) + 1, ends[k])]

Corpora(tokens, maxDocs, maxTokens) ==
    UNION { UNION { { Cut(flat, ends) :
                        ends \in { e \in [1..d -> 0..n] :
                                     /\ \A k \in 1..d : k > 1 => e[k - 1] <= e[k]
                                     /\ (d > 0 => e[d] = n)
                                     /\ (d = 0 => n = 0) } } :
                      flat \in [1..n -> tokens] } :
            <<d, n>> \in (0..maxDocs) \X (0..maxTokens) }

(***************************************************************************)
(* The lexicon file read by get_sentiment: rows of (word, affect, flag).   *)
(***************************************************************************)
affects == {"positive", "negative", "anger", "anticipation", "disgust",
            "fear", "joy", "sadness", "surprise", "trust"}

NumAffects == Cardinality(affects)

Lexicon ==
    { [word |-> "happy", affect |-> a, flag |-> IF a \in {"joy", "positive"} THEN 1 ELSE 0] :
          a \in affects }
    \cup { [word |-> "sad", affect |-> a, flag |-> IF a \in {"sadness", "negative"} THEN 1 ELSE 0] :
          a \in affects }
    \cup { [word |-> "trump", affect |-> a, flag |-> IF a = "surprise" THEN 1 ELSE 0] :
          a \in affects }
    \cup { [word |-> "happi", affect |-> a, flag |-> IF a = "trust" THEN 1 ELSE 0] :
          a \in affects }

(***************************************************************************)
(* Library objects, kept symbolically.                                     *)
(***************************************************************************)
NoPca == [origin |-> "None", n_features |-> 0, n_components |-> 0]
NoSvc == [origin |-> "None", n_features |-> 0]
NoScores == [isframe |-> FALSE, index |-> <<>>, columns |-> <<>>, rows |-> <<>>]
NoLoadings == [isframe |-> FALSE, index |-> <<>>, columns |-> {}]
NoLoadSquared == [isframe |-> FALSE, index |-> {}, columns |-> <<>>]
NoSentiment == [isframe |-> FALSE, index |-> <<>>, rows |-> <<>>]
NoFeatures == [isframe |-> FALSE, blocks |-> {}, ncols |-> 0, index |-> <<>>, rows |-> <<>>]
NoResult == [kind |-> "none", n |-> 0]
Raised == [kind |-> "raised", n |-> 0]

\* range(n)
range(n) == [i \in 1..n |-> i - 1]

\* ['PC' + str(i + 1) for i in range(n)]
PCNames(n) == [i \in 1..n |-> "PC" \o ToString(i)]

\* The artifacts joblib.load can find under model/.
StoredWords ==
    { [t \in {"happi", "sad"} |-> IF t = "happi" THEN 2 ELSE 1],
      [t \in {"tax"} |-> 3] }

StoredPca ==
    { [origin |-> "loaded", n_features |-> f, n_components |-> 1] : f \in 1..2 }

StoredSvm ==
    { [origin |-> "loaded", n_features |-> f] : f \in {1, 1 + NumAffects} }

(***************************************************************************)
(* __init__                                                                *)
(***************************************************************************)
Fields0 ==
    /\ dtm = <<>>
    /\ top_words = <<>>
    /\ words = <<>>
    /\ pca = NoPca
    /\ pcscores = NoScores
    /\ loadings = NoLoadings
    /\ load_squared = NoLoadSquared
    /\ sentiment = NoSentiment
    /\ svc = NoSvc
    /\ features = NoFeatures
    /\ result = NoResult
    /\ written = <<>>
    /\ pc = "words"

\* A run of create_full_model or of load_full_model.
Init ==
    /\ data \in Corpora(RunTokens, MaxRunDocs, MaxRunTokens)
    /\ max_words \in 0..MaxK
    /\ load_pca \in BOOLEAN
    /\ load_svm \in BOOLEAN
    /\ use_sentiment \in BOOLEAN
    /\ stop_words = StopWordSet({""})
    /\ entry \in {"create_full_model", "load_full_model"}
    /\ Fields0

\* The text stages alone, on larger corpora.
InitText ==
    /\ data \in Corpora(Tokens, MaxDocs, MaxTokens)
    /\ max_words \in 0..MaxK
    /\ load_pca = FALSE
    /\ load_svm = FALSE
    /\ use_sentiment = TRUE
    /\ stop_words \in {StopWordSet(m) : m \in MoreStopWords}
    /\ entry = "stages"
    /\ Fields0

\* A script that calls the stage methods itself, in pipeline order.
InitStages ==
    /\ data \in Corpora(RunTokens, MaxRunDocs, MaxRunTokens)
    /\ max_words \in 0..MaxK
    /\ load_pca \in BOOLEAN
    /\ load_svm \in BOOLEAN
    /\ use_sentiment \in BOOLEAN
    /\ stop_words = StopWordSet({""})
    /\ entry = "stages"
    /\ Fields0

\* The log after `method` assigned to each of `fields`, in that order.
Assigned(method, fields) ==
    written \o [i \in DOMAIN fields |-> <<fields[i], method>>]

(***************************************************************************)
(* get_words / load_words                                                  *)
(***************************************************************************)
get_words ==
    /\ pc = "words"
    /\ entry \in {"create_full_model", "stages"}
    /\ LET str_list == Flatten(data)
       IN  /\ words' = Counter(StemFilter(str_list, stop_words))
           /\ top_words' = dict(most_common(words', max_words))
    /\ written' = Assigned("get_words", <<"words", "top_words">>)
    /\ pc' = "dtm"
    /\ UNCHANGED <<config, dtm, pca, pcscores, loadings, load_squared,
                   sentiment, svc, features, result>>

load_words ==
    /\ pc = "words"
    /\ entry \in {"load_full_model", "stages"}
    /\ \E w \in StoredWords : top_words' = w
    /\ written' = Assigned("load_words", <<"top_words">>)
    /\ pc' = "dtm"
    /\ UNCHANGED <<config, words, dtm, pca, pcscores, loadings, load_squared,
                   sentiment, svc, features, result>>

(***************************************************************************)
(* create_dtm                                                              *)
(***************************************************************************)
\* Variant: newrow[word] = 1, a presence flag instead of a count.
RECURSIVE CountIntoPresence(_, _, _)
CountIntoPresence(newrow, tweetwords, keys) ==
    IF tweetwords = <<>> THEN newrow
    ELSE LET word == Head(tweetwords)
             bumped == IF word \in keys
                       THEN [newrow EXCEPT ![word] = 1]
                       ELSE newrow
         IN  CountIntoPresence(bumped, Tail(tweetwords), keys)

\* for word in tweetwords: if word in top_words.keys(): newrow[word] += 1
RECURSIVE CountInto(_, _, _)
CountInto(newrow, tweetwords, keys) ==
    IF tweetwords = <<>> THEN newrow
    ELSE LET word == Head(tweetwords)
             bumped == IF word \in keys
                       THEN [newrow EXCEPT ![word] = @ + 1]
                       ELSE newrow
         IN  CountInto(bumped, Tail(tweetwords), keys)

\* Variant: a row keeps only the terms the tweet holds (no zero-filled row).
NewRowSparse(tweet, tw, stops) ==
    LET tweetwords == StemFilter(tweet, stops)
    IN  [term \in DOMAIN tw \cap Range(tweetwords) |->
            Cardinality({i \in DOMAIN tweetwords : tweetwords[i] = term})]

NewRow(tweet, tw, stops) ==
    CountInto([term \in DOMAIN tw |-> 0], StemFilter(tweet, stops), DOMAIN tw)

\* Variant: unseen terms of the corpus are added to the vocabulary.
create_dtm_grow ==
    /\ pc = "dtm"
    /\ LET seen == Range(StemFilter(Flatten(data), stop_words))
       IN  top_words' = [t \in DOMAIN top_words \cup seen |->
                            IF t \in DOMAIN top_words THEN top_words[t] ELSE 1]
    /\ dtm' = [d \in DOMAIN data |-> NewRow(data[d], top_words', stop_words)]
    /\ written' = Assigned("create_dtm", <<"dtm">>)
    /\ pc' = "pca"
    /\ UNCHANGED <<config, words, pca, pcscores, loadings,
                   load_squared, sentiment, svc, features, result>>

create_dtm ==
    /\ pc = "dtm"
    /\ dtm' = [d \in DOMAIN data |-> NewRow(data[d], top_words, stop_words)]
    /\ written' = Assigned("create_dtm", <<"dtm">>)
    /\ pc' = "pca"
    /\ UNCHANGED <<config, words, top_words, pca, pcscores, loadings,
                   load_squared, sentiment, svc, features, result>>

(***************************************************************************)
(* get_sentiment                                                           *)
(***************************************************************************)
emotion_words(key) ==
    {r.word : r \in {x \in Lexicon : x.affect = key /\ x.flag = 1}}

\* Variant: the tokens are stemmed before the lexicon lookup.
SentimentRowStemmed(text, stops) ==
    LET keys == Range(StemFilter(text, stops))
    IN  [key \in affects |-> Cardinality(emotion_words(key) \cap keys)]

SentimentRow(text, stops) ==
    LET keys == Range(RawFilter(text, stops))
    IN  [key \in affects |-> Cardinality(emotion_words(key) \cap keys)]

get_sentiment ==
    /\ pc = "sentiment"
    /\ sentiment' = [isframe |-> TRUE,
                     index |-> range(Len(data)),
                     rows |-> [d \in DOMAIN data |-> SentimentRow(data[d], stop_words)]]
    /\ written' = Assigned("get_sentiment", <<"sentiment">>)
    /\ pc' = "svm"
    /\ UNCHANGED <<config, words, top_words, dtm, pca, pcscores, loadings,
                   load_squared, svc, features, result>>

(***************************************************************************)
(* run_pca                                                                 *)
(***************************************************************************)
\* PCA(n_components=0.8).fit(df_dtm): needs at least one row and one column;
\* the number of components kept is decided by the variances.
PcaFit(n_rows, n_cols) ==
    { [origin |-> "fit", n_features |-> n_cols, n_components |-> c] :
          c \in 1..Min(n_rows, n_cols) }

\* pca.transform(df_dtm) raises on an empty frame and on a column count
\* other than the one the projection was fitted on.
TransformRaises(p, n_rows, n_cols) ==
    n_rows = 0 \/ n_cols = 0 \/ p.n_features # n_cols

Transform(p, df_rows) ==
    [i \in DOMAIN df_rows |-> [by |-> p.origin, x |-> df_rows[i]]]

run_pca ==
    /\ pc = "pca"
    /\ LET n_rows == Len(dtm)
           n_cols == Cardinality(DOMAIN top_words)
           found == IF load_pca THEN StoredPca ELSE PcaFit(n_rows, n_cols)
           after == IF entry = "stages" \/ use_sentiment THEN "sentiment" ELSE "svm"
       IN  IF found = {}
           THEN /\ pc' = "raised"
                /\ result' = Raised
                /\ UNCHANGED <<pca, pcscores, loadings, load_squared, written>>
           ELSE \E p \in found :
                  IF TransformRaises(p, n_rows, n_cols)
                  THEN /\ pc' = "raised"
                       /\ result' = Raised
                       /\ UNCHANGED <<pca, pcscores, loadings, load_squared, written>>
                  ELSE /\ pcscores' = [isframe |-> TRUE,
                                       index |-> range(n_rows),
                                       columns |-> PCNames(p.n_components),
                                       rows |-> Transform(p, dtm)]
                       /\ loadings' = [isframe |-> TRUE,
                                       index |-> range(p.n_components),
                                       columns |-> DOMAIN top_words]
                       /\ load_squared' = [isframe |-> TRUE,
                                           index |-> DOMAIN top_words,
                                           columns |-> PCNames(p.n_components)]
                       /\ pca' = p
                       /\ written' = Assigned("run_pca",
                              <<"pcscores", "loadings", "load_squared", "pca">>)
                       /\ pc' = after
                       /\ UNCHANGED result
    /\ UNCHANGED <<config, words, top_words, dtm, sentiment, svc, features>>

(***************************************************************************)
(* run_svm                                                                 *)
(***************************************************************************)
SortedSeq(S) ==
    [r \in 1..Cardinality(S) |->
        CHOOSE x \in S : Cardinality({y \in S : y < x}) = r - 1]

Lookup(frame, label) ==
    LET at == {i \in DOMAIN frame.index : frame.index[i] = label}
    IN  IF at = {} THEN <<>> ELSE << frame.rows[CHOOSE i \in at : TRUE] >>

\* data = self.pcscores
FromScores(pcs) ==
    [isframe |-> TRUE, blocks |-> {"pc"}, ncols |-> Len(pcs.columns),
     index |-> pcs.index,
     rows |-> [i \in DOMAIN pcs.rows |-> [pc |-> << pcs.rows[i] >>, affect |-> <<>>]]]

\* Variant: pd.concat([pcs, sent]) along axis 0, the frames stacked.
concat_rows(pcs, sent) ==
    IF ~sent.isframe THEN FromScores(pcs)
    ELSE [isframe |-> TRUE, blocks |-> {"pc", "affect"},
          ncols |-> Len(pcs.columns) + NumAffects,
          index |-> pcs.index \o sent.index,
          rows |-> [i \in DOMAIN pcs.rows |-> [pc |-> << pcs.rows[i] >>, affect |-> <<>>]]
                   \o [i \in DOMAIN sent.rows |-> [pc |-> <<>>, affect |-> << sent.rows[i] >>]]]

\* pd.concat([pcs, sent], axis=1): None objects are dropped; frames are joined
\* on the union of their row labels, a row missing on one side filled with NaN
\* (kept here as an empty block).
concat(pcs, sent) ==
    IF ~sent.isframe THEN FromScores(pcs)
    ELSE LET labels == SortedSeq(Range(pcs.index) \cup Range(sent.index))
         IN  [isframe |-> TRUE, blocks |-> {"pc", "affect"},
              ncols |-> Len(pcs.columns) + NumAffects,
              index |-> labels,
              rows |-> [i \in DOMAIN labels |->
                          [pc |-> Lookup(pcs, labels[i]),
                           affect |-> Lookup(sent, labels[i])]]]

HasNaN(m) ==
    \E i \in DOMAIN m.rows :
        \/ ("pc" \in m.blocks /\ m.rows[i].pc = <<>>)
        \/ ("affect" \in m.blocks /\ m.rows[i].affect = <<>>)

\* train_test_split(..., test_size=0.2): ceil(0.2 * n) rows are held out.
TestSize(n) == (n + 4) \div 5

\* What GridSearchCV.fit / clf.predict refuse: no rows, or NaN cells.
Unusable(m, n_rows) == n_rows = 0 \/ HasNaN(m)

\* Variant: the index is reset to 1..n.
ResetIndexFromOne(pcs) == [pcs EXCEPT !.index = [i \in DOMAIN pcs.rows |-> i]]

\* self.pcscores.index = range(len(self.pcscores))
ResetIndex(pcs) == [pcs EXCEPT !.index = range(Len(pcs.rows))]

run_svm ==
    /\ pc \in (IF entry = "stages" THEN {"sentiment", "svm"} ELSE {"svm"})
    /\ IF ~pcscores.isframe
       THEN \* len(None) / split or predict of None
            /\ pc' = "raised"
            /\ result' = Raised
            /\ UNCHANGED <<pcscores, svc, features, written>>
       ELSE LET reset == ResetIndex(pcscores)
                m == IF use_sentiment THEN concat(reset, sentiment)
                     ELSE FromScores(pcscores)
                n == Len(m.rows)
                index_set == IF use_sentiment THEN <<"pcscores">> ELSE <<>>
            IN  /\ pcscores' = IF use_sentiment THEN reset ELSE pcscores
                /\ features' = m
                /\ IF ~load_svm
                   THEN \E enough \in BOOLEAN :
                          \* the 5-fold search needs enough training rows
                          IF Unusable(m, n - TestSize(n)) \/ ~enough
                          THEN /\ pc' = "raised"
                               /\ result' = Raised
                               /\ written' = Assigned("run_svm", index_set)
                               /\ UNCHANGED svc
                          ELSE /\ svc' = [origin |-> "fit", n_features |-> m.ncols]
                               /\ result' = [kind |-> "prediction", n |-> TestSize(n)]
                               /\ written' = Assigned("run_svm", index_set \o <<"svc">>)
                               /\ pc' = "returned"
                   ELSE \E clf \in StoredSvm :
                          IF Unusable(m, n) \/ clf.n_features # m.ncols
                          THEN /\ pc' = "raised"
                               /\ result' = Raised
                               /\ written' = Assigned("run_svm", index_set)
                               /\ UNCHANGED svc
                          ELSE /\ svc' = clf
                               /\ result' = [kind |-> "prediction", n |-> n]
                               /\ written' = Assigned("run_svm", index_set \o <<"svc">>)
                               /\ pc' = "returned"
    /\ UNCHANGED <<config, words, top_words, dtm, pca, loadings, load_squared, sentiment>>

(***************************************************************************)
(* Specifications                                                          *)
(***************************************************************************)
Next ==
    \/ get_words
    \/ load_words
    \/ create_dtm
    \/ run_pca
    \/ get_sentiment
    \/ run_svm

Spec == Init /\ [][Next]_vars

NextText ==
    \/ get_words
    \/ create_dtm
    \/ run_pca
    \/ get_sentiment

SpecText == InitText /\ [][NextText]_vars

SpecStages == InitStages /\ [][Next]_vars

(***************************************************************************)
(* Properties                                                              *)
(***************************************************************************)
DtmBuilt == pc \notin {"words", "dtm"}

\* The lower-cased tokens of a document that pass the stop-word and URL filter.
Passes(tok) == lower(tok) \notin stop_words /\ ~startswith_http(lower(tok))

\* Occurrences of term t among the filtered, stemmed tokens of a document.
Occurrences(doc, t) ==
    Cardinality({i \in DOMAIN doc : Passes(doc[i]) /\ stem(lower(doc[i])) = t})

\* C1: after create_dtm the document-term matrix has one row per document of
\* the corpus, in corpus order (row d counts only terms of document d), and
\* every row has exactly the keys of top_words as its columns: as many columns
\* as the vocabulary has terms, none missing, none extra.
C1_DtmShape ==
    DtmBuilt =>
        /\ Len(dtm) = Len(data)
        /\ \A d \in DOMAIN dtm :
              /\ DOMAIN dtm[d] = DOMAIN top_words
              /\ Cardinality(DOMAIN dtm[d]) = Cardinality(DOMAIN top_words)
              /\ \A t \in DOMAIN dtm[d] :
                    dtm[d][t] > 0 => \E i \in DOMAIN data[d] : stem(lower(data[d][i])) = t

C1_Witness ==
    /\ pc = "pca"
    /\ Len(data) = 2
    /\ data[2] # <<>>
    /\ Cardinality(DOMAIN top_words) = 2
    /\ \E t \in DOMAIN top_words : \A d \in DOMAIN data : Occurrences(data[d], t) = 0

\* C3: every cell (d, t) of the document-term matrix is the number of
\* occurrences of t in the filtered, stemmed tokens of document d; a document
\* whose tokens are all outside the vocabulary gets an all-zero row.
C3_DtmCells ==
    DtmBuilt =>
        /\ DOMAIN dtm = DOMAIN data
        /\ \A d \in DOMAIN dtm : \A t \in DOMAIN top_words :
              /\ t \in DOMAIN dtm[d]
              /\ dtm[d][t] = Occurrences(data[d], t)
        /\ \A d \in DOMAIN dtm :
              (\A i \in DOMAIN data[d] : stem(lower(data[d][i])) \notin DOMAIN top_words)
                  => \A t \in DOMAIN dtm[d] : dtm[d][t] = 0

C3_Witness ==
    /\ pc = "pca"
    /\ top_words # <<>>
    /\ \E d \in DOMAIN data :
          /\ \E i \in DOMAIN data[d] : Passes(data[d][i])
          /\ \A i \in DOMAIN data[d] : stem(lower(data[d][i])) \notin DOMAIN top_words
          /\ \A t \in DOMAIN dtm[d] : dtm[d][t] = 0
    /\ \E d \in DOMAIN data : \E t \in DOMAIN top_words : dtm[d][t] > 0

\* C4: once get_words or load_words has set top_words, no later stage
\* (create_dtm, run_pca, get_sentiment, run_svm) changes it.
C4_VocabularyFixed == [][pc # "words" => top_words' = top_words]_vars

C4_Witness ==
    /\ pc = "returned"
    /\ top_words # <<>>
    /\ \E d \in DOMAIN data : \E i \in DOMAIN data[d] :
          Passes(data[d][i]) /\ stem(lower(data[d][i])) \notin DOMAIN top_words

\* C5: every cell (d, a) of the affect matrix is the number of distinct words
\* that are among the unstemmed, lower-cased, filtered tokens of document d and
\* are flagged 1 for affect a in the lexicon; the document "happy sad" gets 1
\* in joy, positive, sadness and negative and 0 in the six other categories.
C5_AffectCounts ==
    sentiment.isframe =>
        /\ Len(sentiment.rows) = Len(data)
        /\ \A d \in DOMAIN data : \A a \in affects :
              sentiment.rows[d][a] =
                  Cardinality({w \in {lower(data[d][i]) : i \in DOMAIN data[d]} :
                      /\ w \notin stop_words
                      /\ ~startswith_http(w)
                      /\ [word |-> w, affect |-> a, flag |-> 1] \in Lexicon})
        /\ \A d \in DOMAIN data :
              {lower(data[d][i]) : i \in {j \in DOMAIN data[d] : Passes(data[d][j])}}
                      = {"happy", "sad"} =>
                  \A a \in affects :
                      sentiment.rows[d][a] =
                          IF a \in {"joy", "positive", "sadness", "negative"} THEN 1 ELSE 0

C5_Witness ==
    /\ sentiment.isframe
    /\ Len(data) = 2
    /\ data[1] = <<"happy", "sad">>
    /\ data[2] = <<"Trump">>
    /\ "sad" \notin stop_words
    /\ sentiment.rows[1]["joy"] = 1
    /\ sentiment.rows[1]["sadness"] = 1
    /\ sentiment.rows[1]["anger"] = 0

\* C6: the feature matrix run_svm builds from the component scores and the
\* affect counts of a corpus of N documents has N rows, and row i holds the
\* component scores of document i next to the affect counts of document i.
C6_FeatureAlignment ==
    (features.isframe /\ sentiment.isframe) =>
        /\ Len(features.rows) = Len(data)
        /\ features.blocks = {"pc", "affect"}
        /\ \A i \in DOMAIN features.rows :
              /\ features.rows[i].pc =
                     << [by |-> pca.origin, x |-> NewRow(data[i], top_words, stop_words)] >>
              /\ features.rows[i].affect = << SentimentRow(data[i], stop_words) >>

C6_Witness ==
    /\ features.isframe
    /\ sentiment.isframe
    /\ Len(data) = 2
    /\ features.rows[1] # features.rows[2]
    /\ result.kind = "prediction"

Rank(p) ==
    CASE p = "words" -> 1
      [] p = "dtm" -> 2
      [] p = "pca" -> 3
      [] p = "sentiment" -> 4
      [] p = "svm" -> 5
      [] OTHER -> 6

\* The stage that owns each model field, by the methods that make it up.
Owners(field) ==
    CASE field = "words" -> {"get_words"}
      [] field = "top_words" -> {"get_words", "load_words"}
      [] field = "dtm" -> {"create_dtm"}
      [] field \in {"pca", "pcscores", "loadings", "load_squared"} -> {"run_pca"}
      [] field = "sentiment" -> {"get_sentiment"}
      [] field = "svc" -> {"run_svm"}

MethodRank(method) ==
    CASE method \in {"get_words", "load_words"} -> 1
      [] method = "create_dtm" -> 2
      [] method = "run_pca" -> 3
      [] method = "get_sentiment" -> 4
      [] method = "run_svm" -> 5

\* The stages run in pipeline order, sentiment only if enabled, and no field
\* changes its value outside the step of the stage that owns it.
StepOrder ==
    /\ Rank(pc) < Rank(pc')
    /\ (pc' \notin {"raised", "returned"} =>
           Rank(pc') = IF pc = "pca" /\ ~use_sentiment THEN 5 ELSE Rank(pc) + 1)
    /\ (pc' = "returned" => pc = "svm")
    /\ (words' # words \/ top_words' # top_words) => pc = "words"
    /\ dtm' # dtm => pc = "dtm"
    /\ (pca' # pca \/ pcscores' # pcscores \/ loadings' # loadings
          \/ load_squared' # load_squared) => pc = "pca"
    /\ sentiment' # sentiment => pc = "sentiment"
    /\ svc' # svc => pc = "svm"

\* Every assignment is made by the field's own stage, but for the row index
\* of pcscores, which run_svm assigns again when use_sentiment is set; no
\* method assigns a field twice, and the methods act in pipeline order.
WritesOwned ==
    /\ \A i \in DOMAIN written :
          \/ written[i][2] \in Owners(written[i][1])
          \/ written[i] = <<"pcscores", "run_svm">> /\ use_sentiment
    /\ \A i, j \in DOMAIN written :
          /\ (i # j => written[i] # written[j])
          /\ (i < j => MethodRank(written[i][2]) <= MethodRank(written[j][2]))
    /\ (pcscores.isframe => pcscores.index = range(Len(data)))

\* C8, as first stated: the stages run in the order vocabulary, DTM, PCA,
\* sentiment, SVM, and each model field is written by one stage, once, and by
\* no later stage.
C8_WrittenOnce ==
    /\ \A i \in DOMAIN written : written[i][2] \in Owners(written[i][1])
    /\ \A i, j \in DOMAIN written :
          /\ (i # j => written[i][1] # written[j][1])
          /\ (i < j => MethodRank(written[i][2]) <= MethodRank(written[j][2]))

\* C8, amended: in a run of create_full_model or load_full_model the stages
\* run in the order vocabulary, DTM, PCA, sentiment (only if enabled), SVM,
\* each at most once; each model field is assigned only by the stage that
\* owns it and keeps its value in every later stage; the one later assignment
\* is run_svm's of the row index of pcscores when use_sentiment is set, and it
\* assigns 0..N-1, the index run_pca gave it.
C8_OwnedWrites == [][StepOrder /\ WritesOwned']_vars

C8_Witness ==
    /\ pc = "returned"
    /\ entry = "create_full_model"
    /\ use_sentiment
    /\ Len(data) = 2
    /\ words # <<>>
    /\ svc.origin = "fit"
    /\ \E i \in DOMAIN written : written[i] = <<"pcscores", "run_pca">>
    /\ \E i \in DOMAIN written : written[i] = <<"pcscores", "run_svm">>
    /\ pcscores.index = range(2)

\* C2: a run of load_full_model fits nothing, whatever load_pca and load_svm
\* are: no vocabulary is counted, and the projection and the classifier are
\* the loaded ones.
C2_LoadNeverFits ==
    entry = "load_full_model" =>
        /\ words = <<>>
        /\ pca.origin # "fit"
        /\ svc.origin # "fit"

\* The token positions of the corpus that pass the filter.
Kept ==
    UNION { { <<d, i>> : i \in {j \in DOMAIN data[d] : Passes(data[d][j])} } :
            d \in DOMAIN data }

\* Tokens of the corpus that pass the filter, stemmed.
CorpusTerms == { stem(lower(data[x[1]][x[2]])) : x \in Kept }

Frequency(t) == Cardinality({x \in Kept : stem(lower(data[x[1]][x[2]])) = t})

\* C7: after get_words with max_words = K, top_words holds min(K, D) distinct
\* terms, D the number of distinct filtered stemmed tokens of the corpus, each
\* with its corpus frequency, and no term left out is more frequent than a
\* term kept.
C7_TopWords ==
    pc # "words" =>
        LET terms == CorpusTerms
            freq == [t \in terms |-> Frequency(t)]
        IN  /\ DOMAIN top_words \subseteq terms
            /\ Cardinality(DOMAIN top_words) = Min(max_words, Cardinality(terms))
            /\ \A kept \in DOMAIN top_words :
                  /\ top_words[kept] = freq[kept]
                  /\ \A out \in terms \ DOMAIN top_words : freq[out] <= freq[kept]

C7_Witness ==
    /\ pc = "dtm"
    /\ max_words = 1
    /\ \E kept \in DOMAIN top_words : \E out \in CorpusTerms \ DOMAIN top_words :
          /\ Frequency(out) < Frequency(kept)
          /\ words[1].term = out

\* C9: no key of top_words after get_words, and so no term counted by
\* create_dtm, is a stop word or starts with "http".
C9_NoStopWordTerm ==
    pc # "words" =>
        \A t \in DOMAIN top_words : t \notin stop_words /\ ~startswith_http(t)

\* C10: run_svm with use_sentiment set never returns a prediction when the
\* affect matrix is missing or has another number of rows than the component
\* scores: it ends in an error.
C10_MismatchRaises ==
    (pc = "returned" /\ use_sentiment) =>
        /\ sentiment.isframe
        /\ Len(sentiment.rows) = Len(pcscores.rows)

====
